---- MODULE Spec2Model ----
(***************************************************************************)
(* OpenOil.update() of models/openoil.py: one model timestep of the oil    *)
(* drift model, as a sequence of steps over the element arrays.            *)
(*                                                                         *)
(* Units.  The source computes in floating point; the model uses exact     *)
(* integers in finer units, and the sample inputs are chosen so that every *)
(* quotient taken below is exact:                                          *)
(*   time                      seconds                                     *)
(*   wind                      m/s                                         *)
(*   current, displacements    cm/s                                        *)
(*   positions                 cm (projected east / north)                 *)
(*   wave height               mm                                          *)
(*   mass_oil                  g                                           *)
(*   fractions, water content  hundredths (100 is the fraction 1.0)        *)
(*   wind_drift_factor         hundredths (2 is the factor 0.02)           *)
(*   random draws of rand()    hundredths (a draw r stands for r/100)      *)
(*                                                                         *)
(* OpenDriftSimulation (deactivate_elements, update_positions, the active  *)
(* element arrays) and LagrangianArray are not part of models/openoil.py;  *)
(* they are modelled from the design description of the lifecycle manager  *)
(* and the transport integrator.                                           *)
(***************************************************************************)
EXTENDS Integers, Sequences, FiniteSets, TLC

\* ------------------------------------------------------------------ bounds
\* number of update() calls of a run
MaxSteps == 2

\* update() is elementwise: no statement combines the values of two
\* elements, so the element arrays are followed for one element
Elements == {1}

\* ------------------------------------------------- run and oil parameters
\* self.time_step.total_seconds()
time_step == 86400

\* oilprop[0, 1] and oilprop[0, 0] of prop.dat
reference_wind == 5
reference_thickness == 4

\* oilprop[1:, 0]*3600, oilprop[1:, 1]*.01 and oilprop[1:, 3] of prop.dat:
\* a strictly increasing time axis with monotone curves over it
tref == <<0, 172800, 345600>>
fref == <<0, 60, 100>>
wmax == <<0, 40, 80>>

\* Film thickness in mm, hardcoded in update()
h == 2

\* defaults of the Oil element variables
default_mass_oil == 1000
default_age == 0

\* ------------------------------------------------------------ input samples
\* (x_wind, y_wind) in m/s
WindSamples == {<<0, 0>>, <<3, 4>>}
\* (x_sea_water_velocity, y_sea_water_velocity) in cm/s
CurrentSamples == {<<0, 0>>, <<10, 0>>}
\* sea_surface_wave_significant_height in mm
WaveSamples == {0, 4000}
LandSamples == {0, 1}
\* depth of a seeded element (0 is the surface)
DepthSamples == {0, 5}
\* exposure age of a seeded element
SeedAgeSamples == {0, 345600}
\* draws of np.random.rand(), in hundredths
RandSamples == {0, 90}
\* pairs of draws of a standard normal variate (east, north)
NoiseSamples == {<<1, 0>>, <<-1, 1>>}

EnvSamples ==
  {[x_wind |-> w[1],
    y_wind |-> w[2],
    x_sea_water_velocity |-> c[1],
    y_sea_water_velocity |-> c[2],
    sea_surface_wave_significant_height |-> hs,
    land_binary_mask |-> l] :
     w \in WindSamples, c \in CurrentSamples,
     hs \in WaveSamples, l \in LandSamples}

\* the [processes] and [drift] sections of configspec
ConfigSamples ==
  [evaporation : BOOLEAN, emulsification : BOOLEAN,
   dispersion : BOOLEAN, diffusion : BOOLEAN,
   wind_drift_factor : {0, 2},
   current_uncertainty : {0, 10},
   wind_uncertainty : {0, 1}]

\* an element outside the active set has no row in the environment arrays
NoEnv == [none |-> TRUE]
\* no evaporation probability has been computed in this call
NoProb == [none |-> TRUE]

VARIABLES config, elements, age_exposure_is_scalar, environment,
          evaporation_probability, pc, steps

vars == <<config, elements, age_exposure_is_scalar, environment,
          evaporation_probability, pc, steps>>

\* ----------------------------------------------------------- pure helpers
\* floor of the square root
ISqrt(n) == CHOOSE k \in 0..n : k * k <= n /\ (k + 1) * (k + 1) > n

\* interp without the clamp at the upper endpoint: the last segment is
\* extended beyond the table
interp_extrapolating(x, xp, fp) ==
  IF x <= xp[1] THEN fp[1]
  ELSE LET n == Len(xp)
           i == IF x >= xp[n] THEN n - 1
                ELSE CHOOSE j \in 1..(n - 1) : xp[j] <= x /\ x < xp[j + 1]
       IN  fp[i] + ((fp[i + 1] - fp[i]) * (x - xp[i])) \div (xp[i + 1] - xp[i])

\* np.interp(x, xp, fp): linear interpolation, constant beyond the endpoints
interp(x, xp, fp) ==
  IF x <= xp[1] THEN fp[1]
  ELSE IF x >= xp[Len(xp)] THEN fp[Len(fp)]
  ELSE LET i == CHOOSE j \in 1..(Len(xp) - 1) : xp[j] <= x /\ x < xp[j + 1]
       IN  fp[i] + ((fp[i + 1] - fp[i]) * (x - xp[i])) \div (xp[i + 1] - xp[i])

\* self.elements: the elements that have not been deactivated
Active == {p \in Elements : elements[p].status = "active"}

\* windspeed = sqrt(x_wind**2 + y_wind**2)
windspeed(p) ==
  ISqrt(environment[p].x_wind * environment[p].x_wind +
        environment[p].y_wind * environment[p].y_wind)

\* Urel = windspeed/reference_wind, assigned in the evaporation block only
Urel(p) == windspeed(p) \div reference_wind

\* the local name Urel is bound only when the evaporation block has run
UrelIsBound == config.evaporation

\* at_surface = (self.elements.depth == 0)
at_surface(p) == elements[p].depth = 0

\* delta_exposure_seconds
delta_exposure_seconds(p) == ((reference_thickness \div h) * Urel(p)) * time_step

\* deactivate_elements that also retags elements already deactivated
deactivate_any(els, mask, reason) ==
  [p \in Elements |->
     IF mask[p] THEN [els[p] EXCEPT !.status = reason] ELSE els[p]]

\* deactivate_elements(mask, reason) applied to the element array els
deactivate_elements(els, mask, reason) ==
  [p \in Elements |->
     IF els[p].status = "active" /\ mask[p]
     THEN [els[p] EXCEPT !.status = reason]
     ELSE els[p]]

\* update_positions(u, v) applied to the element array els
update_positions(els, u, v) ==
  [p \in Elements |->
     IF els[p].status = "active"
     THEN [els[p] EXCEPT !.lon = @ + u[p] * time_step,
                         !.lat = @ + v[p] * time_step]
     ELSE els[p]]

\* update() with the position updates moved before the strand check
StepAfterPositionsFirst(s) ==
  CASE s = "evaporation" -> "emulsification"
    [] s = "emulsification" -> "dispersion"
    [] s = "dispersion" -> "current"
    [] s = "current" -> "wind_drag"
    [] s = "wind_drag" -> "diffusion_current"
    [] s = "diffusion_current" -> "diffusion_wind"
    [] s = "diffusion_wind" -> "strand"
    [] s = "strand" -> "returned"

\* the statement blocks of update() in program order
StepAfter(s) ==
  CASE s = "evaporation" -> "emulsification"
    [] s = "emulsification" -> "dispersion"
    [] s = "dispersion" -> "strand"
    [] s = "strand" -> "current"
    [] s = "current" -> "wind_drag"
    [] s = "wind_drag" -> "diffusion_current"
    [] s = "diffusion_current" -> "diffusion_wind"
    [] s = "diffusion_wind" -> "returned"

\* ------------------------------------------------------------------- Init
Init ==
  /\ config \in ConfigSamples
  /\ age_exposure_is_scalar \in BOOLEAN
  /\ \E depth \in [Elements -> DepthSamples] :
     \E seed \in [Elements -> SeedAgeSamples] :
       /\ age_exposure_is_scalar => \A p \in Elements : seed[p] = default_age
       /\ elements =
            [p \in Elements |->
               [status |-> "active",
                depth |-> depth[p],
                lon |-> 0,
                lat |-> 0,
                mass_oil |-> default_mass_oil,
                age_seconds |-> default_age,
                age_exposure_seconds |-> seed[p],
                age_emulsion_seconds |-> default_age,
                fraction_evaporated |-> interp(seed[p], tref, fref),
                water_content |-> 0]]
  /\ environment = [p \in Elements |-> NoEnv]
  /\ evaporation_probability = [p \in Elements |-> NoProb]
  /\ pc = "idle"
  /\ steps = 0

\* ---------------------------------------------------------------- actions
\* update() is entered with a fresh environment snapshot for the active
\* elements; age_seconds is advanced and windspeed is computed
Update ==
  /\ pc \in {"idle", "returned"}
  /\ steps < MaxSteps
  /\ \E env \in [Elements -> EnvSamples] :
       environment' = [p \in Elements |->
                         IF p \in Active THEN env[p] ELSE NoEnv]
  /\ elements' = [p \in Elements |->
                    IF p \in Active
                    THEN [elements[p] EXCEPT !.age_seconds = @ + time_step]
                    ELSE elements[p]]
  /\ evaporation_probability' = [p \in Elements |-> NoProb]
  /\ pc' = "evaporation"
  /\ steps' = steps + 1
  /\ UNCHANGED <<config, age_exposure_is_scalar>>

\* the value of (new - old)/(1 - old): a quotient kept as numerator and
\* denominator, so that 0/0 (nan) and x/0 (inf) stay visible
evaporation_ratio(new, old) == [num |-> new - old, den |-> 100 - old]

\* evaporation_probability[~at_surface] = 0
zero_probability == [num |-> 0, den |-> 1]

\* the elements whose age_exposure_seconds is advanced: all of them while
\* the field is still a scalar, the ones at the surface once it is an array
accrues_exposure(p) == age_exposure_is_scalar \/ at_surface(p)

\* evaporation_probability > rand for rand = r/100; every comparison with
\* nan is False, +inf exceeds every draw and -inf none
exceeds(prob, r) ==
  IF prob.den = 0 THEN prob.num > 0
  ELSE IF prob.den > 0 THEN prob.num * 100 > r * prob.den
  ELSE prob.num * 100 < r * prob.den

\* the evaporation block run whatever processes.evaporation says
EvaporationAlways == TRUE

EvaporationEnabled == config.evaporation = TRUE
EmulsificationEnabled == config.emulsification = TRUE
DispersionEnabled == config.dispersion = TRUE
DiffusionEnabled == config.diffusion = TRUE

Evaporation ==
  /\ pc = "evaporation"
  /\ IF EvaporationEnabled
     THEN \E rand \in [Elements -> RandSamples] :
            LET previous == [p \in Elements |-> elements[p].fraction_evaporated]
                aged == [p \in Elements |->
                           IF p \in Active /\ accrues_exposure(p)
                           THEN [elements[p] EXCEPT !.age_exposure_seconds =
                                   @ + delta_exposure_seconds(p)]
                           ELSE elements[p]]
                evaporated == [p \in Elements |->
                                 IF p \in Active
                                 THEN [aged[p] EXCEPT !.fraction_evaporated =
                                         interp(aged[p].age_exposure_seconds,
                                                tref, fref)]
                                 ELSE aged[p]]
                prob == [p \in Elements |->
                           IF p \notin Active THEN NoProb
                           ELSE IF at_surface(p)
                           THEN evaporation_ratio(
                                  evaporated[p].fraction_evaporated, previous[p])
                           ELSE zero_probability]
                mask == [p \in Elements |->
                           prob[p] # NoProb /\ exceeds(prob[p], rand[p])]
            IN  /\ elements' = deactivate_elements(evaporated, mask, "evaporated")
                /\ evaporation_probability' = prob
                /\ age_exposure_is_scalar' = FALSE
     ELSE UNCHANGED <<elements, evaporation_probability, age_exposure_is_scalar>>
  /\ pc' = StepAfter(pc)
  /\ UNCHANGED <<config, environment, steps>>

\* age_emulsion_seconds += Urel*time_step reads the local Urel: when the
\* evaporation block was skipped the name is unbound and update() raises
Emulsification ==
  /\ pc = "emulsification"
  /\ IF EmulsificationEnabled
     THEN IF UrelIsBound
          THEN /\ elements' =
                    [p \in Elements |->
                       IF p \in Active
                       THEN LET age == elements[p].age_emulsion_seconds +
                                       Urel(p) * time_step
                            IN  [elements[p] EXCEPT
                                   !.age_emulsion_seconds = age,
                                   !.water_content = interp(age, tref, wmax)]
                       ELSE elements[p]]
               /\ pc' = StepAfter(pc)
          ELSE /\ pc' = "raised"
               /\ UNCHANGED elements
     ELSE /\ pc' = StepAfter(pc)
          /\ UNCHANGED elements
  /\ UNCHANGED <<config, environment, evaporation_probability,
                 age_exposure_is_scalar, steps>>

\* wave_significant_height[wave_significant_height==0] =
\*     0.0246*windspeed[wave_significant_height==0]**2, in mm
wave_significant_height(p) ==
  IF environment[p].sea_surface_wave_significant_height = 0
  THEN (246 * windspeed(p) * windspeed(p)) \div 10
  ELSE environment[p].sea_surface_wave_significant_height

\* oil_mass_loss = q_disp * time_step * density in g, for the default
\* viscosity 0.5 and density 800 and a significant wave height of H mm:
\* 2400*exp(-73.682*sqrt(0.5/800)) * (0.0034*1028*9.81*(H/1000)^2)^0.57
\*   * 0.02 * 3.9E-8 * 86400 * 1000, rounded to the gram
oil_mass_loss(H) ==
  CASE H = 0 -> 0
    [] H = 615 -> 110
    [] H = 4000 -> 934

\* wave_significant_height is the environment array itself, so the
\* substitution for zero wave height is written into the environment
Dispersion ==
  /\ pc = "dispersion"
  /\ IF DispersionEnabled
     THEN /\ environment' =
               [p \in Elements |->
                  IF p \in Active
                  THEN [environment[p] EXCEPT
                          !.sea_surface_wave_significant_height =
                            wave_significant_height(p)]
                  ELSE environment[p]]
          /\ elements' =
               [p \in Elements |->
                  IF p \in Active
                  THEN [elements[p] EXCEPT !.mass_oil =
                          @ - oil_mass_loss(wave_significant_height(p))]
                  ELSE elements[p]]
     ELSE UNCHANGED <<elements, environment>>
  /\ pc' = StepAfter(pc)
  /\ UNCHANGED <<config, evaporation_probability, age_exposure_is_scalar, steps>>

\* the land test with the mask value of open water
on_land_inverted(p) ==
  environment[p] # NoEnv /\ environment[p].land_binary_mask = 0

\* self.environment.land_binary_mask == 1
on_land(p) == environment[p] # NoEnv /\ environment[p].land_binary_mask = 1

\* Deactivate elements on land
Strand ==
  /\ pc = "strand"
  /\ elements' = deactivate_elements(
                   elements, [p \in Elements |-> on_land(p)], "stranded")
  /\ pc' = StepAfter(pc)
  /\ UNCHANGED <<config, environment, evaporation_probability,
                 age_exposure_is_scalar, steps>>

\* the value of an environment field for p, 0 where p has no row
env_value(p, field) == IF p \in Active THEN environment[p][field] ELSE 0

\* Simply move particles with ambient current
AdvectCurrent ==
  /\ pc = "current"
  /\ elements' = update_positions(
                   elements,
                   [p \in Elements |-> env_value(p, "x_sea_water_velocity")],
                   [p \in Elements |-> env_value(p, "y_sea_water_velocity")])
  /\ pc' = StepAfter(pc)
  /\ UNCHANGED <<config, environment, evaporation_probability,
                 age_exposure_is_scalar, steps>>

\* the wind drag with the factor added to the wind instead of scaling it
wind_drift_added(p, field) == env_value(p, field) + config.wind_drift_factor

\* x_wind*wind_drift_factor and y_wind*wind_drift_factor, in cm/s
wind_drift(p, field) == env_value(p, field) * config.wind_drift_factor

\* Wind drag
WindDrag ==
  /\ pc = "wind_drag"
  /\ elements' = update_positions(
                   elements,
                   [p \in Elements |-> wind_drift(p, "x_wind")],
                   [p \in Elements |-> wind_drift(p, "y_wind")])
  /\ pc' = StepAfter(pc)
  /\ UNCHANGED <<config, environment, evaporation_probability,
                 age_exposure_is_scalar, steps>>

\* sigma_u, sigma_v of the current uncertainty for the normal draws z
current_sigma(z, k) ==
  IF config.current_uncertainty > 0
  THEN config.current_uncertainty * z[k]
  ELSE 0

\* sigma_u, sigma_v of the wind uncertainty for the normal draws z
wind_sigma(z, k) ==
  IF config.wind_drift_factor > 0 /\ config.wind_uncertainty > 0
  THEN (config.wind_uncertainty * config.wind_drift_factor) * z[k]
  ELSE 0

\* Uncertainty / diffusion: current
DiffusionCurrent ==
  /\ pc = "diffusion_current"
  /\ IF DiffusionEnabled
     THEN \E z \in [Elements -> NoiseSamples] :
            elements' = update_positions(
                          elements,
                          [p \in Elements |-> current_sigma(z[p], 1)],
                          [p \in Elements |-> current_sigma(z[p], 2)])
     ELSE UNCHANGED elements
  /\ pc' = StepAfter(pc)
  /\ UNCHANGED <<config, environment, evaporation_probability,
                 age_exposure_is_scalar, steps>>

\* Uncertainty / diffusion: wind
DiffusionWind ==
  /\ pc = "diffusion_wind"
  /\ IF DiffusionEnabled
     THEN \E z \in [Elements -> NoiseSamples] :
            elements' = update_positions(
                          elements,
                          [p \in Elements |-> wind_sigma(z[p], 1)],
                          [p \in Elements |-> wind_sigma(z[p], 2)])
     ELSE UNCHANGED elements
  /\ pc' = StepAfter(pc)
  /\ UNCHANGED <<config, environment, evaporation_probability,
                 age_exposure_is_scalar, steps>>

Next ==
  \/ Update
  \/ Evaporation
  \/ Emulsification
  \/ Dispersion
  \/ Strand
  \/ AdvectCurrent
  \/ WindDrag
  \/ DiffusionCurrent
  \/ DiffusionWind

Spec == Init /\ [][Next]_vars

\* ------------------------------------------------------------ properties
Deactivated(p) == elements[p].status \in {"evaporated", "stranded"}

\* the element had a row in the environment arrays of the current call,
\* i.e. it was active when the call started
ActiveAtStart(p) == environment[p] # NoEnv

\* C1 (as claimed): every particle that is active at the start of an
\* update() call and has land_binary_mask 1 is stranded when the call returns
C1_StrandedAtReturn ==
  pc = "returned" =>
    \A p \in Elements :
      (ActiveAtStart(p) /\ environment[p].land_binary_mask = 1)
        => elements[p].status = "stranded"

\* C1 (amended): every particle that is active at the start of an update()
\* call and has land_binary_mask 1 is deactivated when the call returns:
\* 'evaporated' if the evaporation step of that call removed it, which needs
\* evaporation enabled, a surface particle and wind, and 'stranded' otherwise
C1_StrandedUnlessEvaporated ==
  pc = "returned" =>
    \A p \in Elements :
      (ActiveAtStart(p) /\ environment[p].land_binary_mask = 1)
        => \/ elements[p].status = "stranded"
           \/ /\ elements[p].status = "evaporated"
              /\ config.evaporation
              /\ at_surface(p)
              /\ evaporation_probability[p] # NoProb
              /\ evaporation_probability[p] # zero_probability

C1_Witness ==
  /\ pc = "returned"
  /\ \E p \in Elements :
       /\ ActiveAtStart(p)
       /\ environment[p].land_binary_mask = 1
       /\ elements[p].status = "stranded"
       /\ config.evaporation /\ config.emulsification
       /\ config.dispersion /\ config.diffusion

\* the order the spec fixes for the steps of one call
StepOrder ==
  <<"evaporation", "emulsification", "dispersion", "strand",
    "current", "wind_drag", "diffusion_current", "diffusion_wind">>

InCall(s) == \E i \in 1..Len(StepOrder) : StepOrder[i] = s

Rank(s) == CHOOSE i \in 1..Len(StepOrder) : StepOrder[i] = s

PositionSteps == {"current", "wind_drag", "diffusion_current", "diffusion_wind"}

\* C2: within a call the steps follow one another in the order evaporation,
\* emulsification, dispersion, strand check, position updates; the
\* evaporation fields and the status 'evaporated' change only in the
\* evaporation step, the emulsion fields only in the emulsification step,
\* mass_oil only in the dispersion step, the status 'stranded' is given only
\* in the strand check, and the position changes only in the position
\* updates, which all come after the strand check
C2_StepOrder ==
  [][/\ (InCall(pc) /\ InCall(pc')) => Rank(pc') = Rank(pc) + 1
     /\ (InCall(pc') /\ ~InCall(pc)) => Rank(pc') = 1
     /\ \A p \in Elements :
          /\ (\/ elements'[p].age_exposure_seconds # elements[p].age_exposure_seconds
              \/ elements'[p].fraction_evaporated # elements[p].fraction_evaporated
              \/ (elements'[p].status = "evaporated" /\ elements[p].status = "active"))
               => pc = "evaporation"
          /\ (\/ elements'[p].age_emulsion_seconds # elements[p].age_emulsion_seconds
              \/ elements'[p].water_content # elements[p].water_content)
               => pc = "emulsification"
          /\ elements'[p].mass_oil # elements[p].mass_oil => pc = "dispersion"
          /\ (elements'[p].status = "stranded" /\ elements[p].status = "active")
               => pc = "strand"
          /\ (elements'[p].lon # elements[p].lon \/ elements'[p].lat # elements[p].lat)
               => (pc \in PositionSteps /\ Rank(pc) > Rank("strand"))
    ]_vars

C2_Witness ==
  /\ pc = "returned"
  /\ \E p \in Elements :
       /\ elements[p].fraction_evaporated > 0
       /\ elements[p].water_content > 0
       /\ elements[p].mass_oil < default_mass_oil
       /\ elements[p].lon # 0
       /\ elements[p].status = "stranded"

\* C3: once a particle is deactivated ('evaporated' or 'stranded') no later
\* step, of the same call or of a later one, changes its status or any of
\* its fields, also when a deactivation predicate holds for it again
C3_DeactivatedFrozen ==
  [][\A p \in Elements : Deactivated(p) => elements'[p] = elements[p]]_vars

C3_Witness ==
  /\ pc = "returned"
  /\ steps = 2
  /\ \E p \in Elements :
       /\ elements[p].status = "evaporated"
       /\ elements[p].age_seconds = time_step

\* v is the value of the curve (tref, fref) at x: the endpoint values
\* outside the table, the point of the chord through the two neighbouring
\* table entries inside it
OnCurve(x, v) ==
  IF x <= tref[1] THEN v = fref[1]
  ELSE IF x >= tref[Len(tref)] THEN v = fref[Len(fref)]
  ELSE \E j \in 1..(Len(tref) - 1) :
         /\ tref[j] <= x /\ x <= tref[j + 1]
         /\ (v - fref[j]) * (tref[j + 1] - tref[j]) =
              (fref[j + 1] - fref[j]) * (x - tref[j])

C5_EvaporationOff ==
  [][config.evaporation = FALSE =>
       \A p \in Elements :
         /\ elements'[p].fraction_evaporated = elements[p].fraction_evaporated
         /\ elements'[p].age_exposure_seconds = elements[p].age_exposure_seconds
         /\ elements'[p].status # "evaporated"]_vars

C5_Witness ==
  /\ pc = "returned"
  /\ steps = 2
  /\ config.evaporation = FALSE
  /\ \E p \in Elements :
       /\ elements[p].status = "active"
       /\ at_surface(p)
       /\ environment[p].x_wind # 0

\* wind and current are zero for every element of the current call
ZeroForcing ==
  \A p \in Elements :
    ActiveAtStart(p) =>
      /\ environment[p].x_wind = 0
      /\ environment[p].y_wind = 0
      /\ environment[p].x_sea_water_velocity = 0
      /\ environment[p].y_sea_water_velocity = 0

\* C6: with zero wind and zero current for every particle and diffusion
\* disabled, no step of update() changes the position of any particle
C6_NoForcingNoMotion ==
  [][(config.diffusion = FALSE /\ ZeroForcing) =>
       \A p \in Elements :
         /\ elements'[p].lon = elements[p].lon
         /\ elements'[p].lat = elements[p].lat]_vars

C6_Witness ==
  /\ pc = "returned"
  /\ steps = 2
  /\ config.diffusion = FALSE
  /\ config.wind_drift_factor > 0
  /\ ZeroForcing
  /\ \E p \in Elements :
       /\ elements[p].status = "active"
       /\ elements[p].age_seconds = 2 * time_step
       /\ elements[p].lon = 0
       /\ elements[p].lat = 0

\* C7 (as claimed): in the evaporation step a particle whose
\* fraction_evaporated is 1 at the start of the step gets the probability 0,
\* never the value of a quotient with a zero denominator
C7_ProbabilityZeroWhenFullyEvaporated ==
  [][(pc = "evaporation" /\ config.evaporation) =>
       \A p \in Active :
         elements[p].fraction_evaporated = 100
           => evaporation_probability'[p] = zero_probability]_vars

\* C8 (as claimed): with processes.emulsification true the emulsification
\* step completes and adds Urel * time_step, Urel = windspeed /
\* reference_wind, to age_emulsion_seconds of every active particle and
\* sets water_content to the lookup of the new age in (tref, wmax)
C8_EmulsificationCompletes ==
  [][(pc = "emulsification" /\ config.emulsification) =>
       /\ pc' = "dispersion"
       /\ \A p \in Active :
            /\ elements'[p].age_emulsion_seconds =
                 elements[p].age_emulsion_seconds +
                 (windspeed(p) \div reference_wind) * time_step
            /\ elements'[p].water_content =
                 interp(elements'[p].age_emulsion_seconds, tref, wmax)]_vars

\* C9 (as claimed): in an evaporation step a particle below the surface
\* keeps its age_exposure_seconds, has probability 0 and is not deactivated,
\* and a particle at the surface has its age_exposure_seconds advanced by
\* (reference_thickness / 2) * Urel * time_step
C9_OnlySurfaceAccruesExposure ==
  [][(pc = "evaporation" /\ config.evaporation) =>
       \A p \in Active :
         IF elements[p].depth # 0
         THEN /\ elements'[p].age_exposure_seconds =
                   elements[p].age_exposure_seconds
              /\ evaporation_probability'[p] = zero_probability
              /\ elements'[p].status = "active"
         ELSE elements'[p].age_exposure_seconds =
                elements[p].age_exposure_seconds +
                ((reference_thickness \div 2) *
                 (windspeed(p) \div reference_wind)) * time_step]_vars

\* C10 (as claimed): mass_oil of every particle is never negative
C10_MassNonNegative ==
  \A p \in Elements : elements[p].mass_oil >= 0
====
